---- MODULE Spec2Model ----
(***************************************************************************)
(* Model of web_server_simple.py: a Flask application whose GET routes     *)
(* build demo payloads from fixed tables, the process-wide random source   *)
(* and the wall clock.                                                     *)
(*                                                                         *)
(* Numbers.  Floats are fixed point.  A value of random.random() is an     *)
(* integer number of thousandths (0 .. 999, i.e. [0, 1)); the result of    *)
(* random.uniform and the sums it enters are in units of 1e-4; a value     *)
(* rounded with round(x, 2), and every rating literal of the tables, is in *)
(* hundredths (4.5 is 450).                                                *)
(*                                                                         *)
(* Random source.  The module `random` keeps one generator for the whole   *)
(* process.  Its state is modelled by its position `rng` in a cyclic       *)
(* stream of representative outputs (RandomValues); every draw reads the   *)
(* value at the position and advances it by one.                           *)
(*                                                                         *)
(* Clock.  `now` is the value of datetime.now() with the granularity of a  *)
(* day: a day number counted from January 1 of the first calendar year.    *)
(* The formatting functions turn it into calendar fields; the time of day  *)
(* that isoformat() would print is not modelled.                           *)
(***************************************************************************)
EXTENDS Integers, Sequences, FiniteSets, TLC

VARIABLES rng, now, request, response, seen

vars == <<rng, now, request, response, seen>>

(***************************************************************************)
(* Bounds of the model.                                                    *)
(***************************************************************************)
\* how many days the clock may advance past a starting day
MaxTicks == 1

Min(a, b) == IF a < b THEN a ELSE b

(***************************************************************************)
(* The random source: random.random(), random.randint, random.uniform.     *)
(***************************************************************************)
\* the stream of random.random() outputs, in thousandths; it holds both
\* ends of [0, 1), the threshold 0.7 of get_recent_alerts and its neighbour
RandomValues == <<999, 0, 0, 999, 700, 701, 500, 250>>

RngPeriod == Len(RandomValues)

\* the k-th draw (k = 0, 1, ...) made from position pos
random_at(pos, k) == RandomValues[((pos + k) % RngPeriod) + 1]

\* the position after n draws
advance(pos, n) == (pos + n) % RngPeriod

\* random.randint(a, b) for the unit draw u: a + randbelow(b - a + 1)
randint(a, b, u) == a + (u * (b - a + 1)) \div 1000

\* random.uniform(a, b) = a + (b - a) * random(); a, b in tenths, result in 1e-4
uniform(a, b, u) == a * 1000 + (b - a) * u

\* round(x, 2): x in 1e-4, result in hundredths, ties to the even neighbour
round2(x) ==
    LET q == x \div 100
        r == x % 100
    IN  IF r < 50 THEN q
        ELSE IF r > 50 THEN q + 1
        ELSE IF q % 2 = 0 THEN q ELSE q + 1

\* int(total * p) for a percentage p given in hundredths: truncation
int_pct(total, p) == (total * p) \div 100

(***************************************************************************)
(* The clock: datetime, timedelta, strftime, isoformat.                    *)
(***************************************************************************)
\* the years the day numbers are counted over
CalendarYears == 2023 .. 2026

EpochYear == CHOOSE y \in CalendarYears : \A z \in CalendarYears : y <= z

IsLeap(y) == (y % 4 = 0 /\ y % 100 # 0) \/ y % 400 = 0

YearLen(y) == IF IsLeap(y) THEN 366 ELSE 365

DaysInMonth(y, m) ==
    IF m = 2 THEN (IF IsLeap(y) THEN 29 ELSE 28)
    ELSE IF m \in {4, 6, 9, 11} THEN 30 ELSE 31

MonthAbbr == <<"Jan", "Feb", "Mar", "Apr", "May", "Jun",
               "Jul", "Aug", "Sep", "Oct", "Nov", "Dec">>

RECURSIVE DaysBeforeYear(_)
DaysBeforeYear(y) ==
    IF y <= EpochYear THEN 0 ELSE DaysBeforeYear(y - 1) + YearLen(y - 1)

RECURSIVE DaysBeforeMonth(_, _)
DaysBeforeMonth(y, m) ==
    IF m <= 1 THEN 0 ELSE DaysBeforeMonth(y, m - 1) + DaysInMonth(y, m - 1)

\* datetime(y, m, d) as a day number
datetime(y, m, d) == DaysBeforeYear(y) + DaysBeforeMonth(y, m) + (d - 1)

RECURSIVE CivilFrom(_, _, _)
CivilFrom(y, m, rest) ==
    IF rest >= YearLen(y) /\ m = 1 THEN CivilFrom(y + 1, 1, rest - YearLen(y))
    ELSE IF rest >= DaysInMonth(y, m) THEN CivilFrom(y, m + 1, rest - DaysInMonth(y, m))
    ELSE [year |-> y, month |-> m, day |-> rest + 1]

\* the calendar fields of a day number
Civil(d) == CivilFrom(EpochYear, 1, d)

\* today - timedelta(days = k)
minus_days(today, k) == today - k

\* date.strftime('%b %d'): month abbreviation and the day as two digits
strftime_bd(d) ==
    LET c == Civil(d) IN <<MonthAbbr[c.month], c.day \div 10, c.day % 10>>

\* date.strftime('%Y%m%d'): eight digits
strftime_Ymd(d) ==
    LET c == Civil(d)
    IN  <<c.year \div 1000, (c.year \div 100) % 10, (c.year \div 10) % 10, c.year % 10,
          c.month \div 10, c.month % 10, c.day \div 10, c.day % 10>>

\* date.isoformat(), its date part
isoformat(d) ==
    LET c == Civil(d) IN [year |-> c.year, month |-> c.month, day |-> c.day]

(***************************************************************************)
(* Requests and responses.                                                 *)
(***************************************************************************)
\* a path is the sequence of its segments: /api/trends/7d is <<"api", "trends", "7d">>
NoRequest == [method |-> "", path |-> <<>>]

NoResponse == [status |-> 0, content_type |-> "", body |-> <<>>]

\* the observer's record before any request was served
NoExchange ==
    [request |-> NoRequest, rng |-> 0, now |-> 0, response |-> NoResponse,
     again |-> FALSE, repeat |-> NoResponse]

\* a view function that returns a string: Flask answers 200 with an HTML body
make_response(text) == [status |-> 200, content_type |-> "text/html", body |-> text]

jsonify_as_html(value) == [status |-> 200, content_type |-> "text/html", body |-> value]

\* jsonify(value): status 200 and a JSON body
jsonify(value) == [status |-> 200, content_type |-> "application/json", body |-> value]

\* what the application answers when no rule matches, or the method is not allowed
not_found == [status |-> 404, content_type |-> "text/html", body |-> "Not Found"]

method_not_allowed ==
    [status |-> 405, content_type |-> "text/html", body |-> "Method Not Allowed"]

\* the rules registered with @app.route, each with its view function
url_map ==
    { [rule |-> <<>>,                               endpoint |-> "home"],
      [rule |-> <<"api", "metrics">>,               endpoint |-> "get_metrics"],
      [rule |-> <<"api", "trends", "<period>">>,    endpoint |-> "get_trends"],
      [rule |-> <<"api", "locations", "top">>,      endpoint |-> "get_top_locations"],
      [rule |-> <<"api", "locations", "attention">>, endpoint |-> "get_attention_locations"],
      [rule |-> <<"api", "rating-distribution">>,   endpoint |-> "get_rating_distribution"],
      [rule |-> <<"api", "alerts", "recent">>,      endpoint |-> "get_recent_alerts"],
      [rule |-> <<"api", "export", "excel">>,       endpoint |-> "export_excel"] }

\* a rule matches a path segment by segment; <period> takes any non-empty segment
Matches(rule, path) ==
    /\ Len(rule) = Len(path)
    /\ \A i \in 1 .. Len(rule) :
          IF rule[i] = "<period>" THEN path[i] # "" ELSE rule[i] = path[i]

\* the view function a path is routed to, "" when no rule matches
Endpoint(path) ==
    LET hit == {r \in url_map : Matches(r.rule, path)}
    IN  IF hit = {} THEN "" ELSE (CHOOSE r \in hit : TRUE).endpoint

(***************************************************************************)
(* generate_demo_data and /api/metrics.                                    *)
(***************************************************************************)
base_reviews == 48532

\* base_rating = 4.3, in 1e-4
base_rating == 43000

generate_demo_data_wide(pos) ==
    [metrics |->
        [total_locations       |-> 120,
         total_reviews         |-> base_reviews + randint(-250, 250, random_at(pos, 0)),
         average_rating        |-> round2(base_rating + uniform(-2, 1, random_at(pos, 1))),
         reviews_removed_today |-> randint(0, 30, random_at(pos, 2)),
         reviews_added_24h     |-> randint(100, 300, random_at(pos, 3)),
         change_7d_reviews     |-> randint(800, 1500, random_at(pos, 4)),
         change_7d_rating      |-> round2(uniform(-3, 2, random_at(pos, 5)))]]

\* generate_demo_data() with the random source at position pos: six draws
generate_demo_data(pos) ==
    [metrics |->
        [total_locations       |-> 120,
         total_reviews         |-> base_reviews + randint(-50, 250, random_at(pos, 0)),
         average_rating        |-> round2(base_rating + uniform(-2, 1, random_at(pos, 1))),
         reviews_removed_today |-> randint(0, 30, random_at(pos, 2)),
         reviews_added_24h     |-> randint(100, 300, random_at(pos, 3)),
         change_7d_reviews     |-> randint(800, 1500, random_at(pos, 4)),
         change_7d_rating      |-> round2(uniform(-3, 2, random_at(pos, 5)))]]

MetricsDraws == 6

\* a module-level cache of the last snapshot
get_metrics_cached ==
    /\ IF request.path = <<"api", "metrics">> /\ response.status = 200
          THEN response' = response
          ELSE response' = jsonify(generate_demo_data(rng).metrics)
    /\ rng' = advance(rng, MetricsDraws)
    /\ UNCHANGED now

get_metrics ==
    /\ response' = jsonify(generate_demo_data(rng).metrics)
    /\ rng' = advance(rng, MetricsDraws)
    /\ UNCHANGED now

(***************************************************************************)
(* / and /api/export/excel.                                                *)
(***************************************************************************)
home ==
    /\ response' = make_response("<h1>Law Firm Review Tracking API</h1>")
    /\ UNCHANGED <<rng, now>>

export_excel ==
    /\ response' = jsonify([success  |-> TRUE,
                            message  |-> "Report generation simulated",
                            filename |-> <<"review_report_", strftime_Ymd(now), ".xlsx">>])
    /\ UNCHANGED <<rng, now>>

(***************************************************************************)
(* /api/trends/<period>.                                                   *)
(***************************************************************************)
Days_no_default(period) ==
    CASE period = "24h" -> 1
      [] period = "7d"  -> 7
      [] period = "30d" -> 30
      [] period = "90d" -> 90
      [] OTHER          -> 0

\* {'24h': 1, '7d': 7, '30d': 30, '90d': 90}.get(period, 7)
Days(period) ==
    CASE period = "24h" -> 1
      [] period = "7d"  -> 7
      [] period = "30d" -> 30
      [] period = "90d" -> 90
      [] OTHER          -> 7

trend_date_off_by_one(today, days, i) == minus_days(today, days - i)

\* date = today - timedelta(days = days - i - 1)
trend_date(today, days, i) == minus_days(today, days - i - 1)

trend_point_wide(today, days, i, pos) ==
    [date            |-> strftime_bd(trend_date(today, days, i)),
     reviews_added   |-> randint(30, 80, random_at(pos, 3 * i)),
     reviews_removed |-> randint(0, 100, random_at(pos, 3 * i + 1)),
     average_rating  |-> round2(base_rating + uniform(-2, 2, random_at(pos, 3 * i + 2)))]

\* the entry appended in iteration i of the loop: three draws
trend_point(today, days, i, pos) ==
    [date            |-> strftime_bd(trend_date(today, days, i)),
     reviews_added   |-> randint(30, 80, random_at(pos, 3 * i)),
     reviews_removed |-> randint(0, 10, random_at(pos, 3 * i + 1)),
     average_rating  |-> round2(base_rating + uniform(-2, 2, random_at(pos, 3 * i + 2)))]

TrendDraws == 3

get_trends(period) ==
    LET days   == Days(period)
        today  == now
        trends == [k \in 1 .. days |-> trend_point(today, days, k - 1, rng)]
    IN  /\ response' = jsonify(trends)
        /\ rng' = advance(rng, TrendDraws * days)
        /\ UNCHANGED now

(***************************************************************************)
(* /api/locations/top.                                                     *)
(***************************************************************************)
\* (name, city, rating, reviews); ratings in hundredths
cities ==
    << <<"Miami Downtown",     "Miami",           480, 1245>>,
       <<"Orlando Central",    "Orlando",         470, 892>>,
       <<"Tampa Bay",          "Tampa",           460, 756>>,
       <<"Jacksonville North", "Jacksonville",    450, 623>>,
       <<"Fort Lauderdale",    "Fort Lauderdale", 450, 589>>,
       <<"West Palm Beach",    "West Palm Beach", 440, 456>>,
       <<"Tallahassee Main",   "Tallahassee",     440, 412>>,
       <<"Gainesville",        "Gainesville",     430, 389>>,
       <<"Naples",             "Naples",          430, 356>>,
       <<"Sarasota",           "Sarasota",        420, 298>> >>

top_status_strict(rating) ==
    IF rating > 450 THEN "Excellent" ELSE IF rating > 400 THEN "Good" ELSE "Monitor"

\* 'Excellent' if rating >= 4.5 else 'Good' if rating >= 4.0 else 'Monitor'
top_status(rating) ==
    IF rating >= 450 THEN "Excellent" ELSE IF rating >= 400 THEN "Good" ELSE "Monitor"

\* cities[:10]
TopSlice == SubSeq(cities, 1, Min(10, Len(cities)))

get_top_locations ==
    LET locations ==
            [k \in 1 .. Len(TopSlice) |->
                [name          |-> <<"Law Firm - ", TopSlice[k][1]>>,
                 city          |-> <<TopSlice[k][2], ", FL">>,
                 rating        |-> TopSlice[k][3],
                 total_reviews |-> TopSlice[k][4],
                 change        |-> randint(-5, 20, random_at(rng, k - 1)),
                 status        |-> top_status(TopSlice[k][3])]]
    IN  /\ response' = jsonify(locations)
        /\ rng' = advance(rng, Len(TopSlice))
        /\ UNCHANGED now

(***************************************************************************)
(* /api/locations/attention.                                               *)
(***************************************************************************)
\* (name, city, rating, removed, issue); ratings in hundredths
problem_locations ==
    << <<"Lakeland Branch", "Lakeland",     320, 8, "Multiple Reviews Removed">>,
       <<"Coral Gables",    "Coral Gables", 350, 3, "Rating Drop">>,
       <<"Fort Myers",      "Fort Myers",   340, 2, "Low Rating">>,
       <<"Clearwater",      "Clearwater",   360, 4, "Reviews Removed">>,
       <<"Ocala",           "Ocala",        330, 1, "Low Rating">> >>

attention_priority_inclusive(rating, removed) ==
    IF removed >= 5 \/ rating <= 330 THEN "Urgent"
    ELSE IF rating <= 350 THEN "High" ELSE "Medium"

\* 'Urgent' if removed > 5 or rating < 3.3 else 'High' if rating < 3.5 else 'Medium'
attention_priority(rating, removed) ==
    IF removed > 5 \/ rating < 330 THEN "Urgent"
    ELSE IF rating < 350 THEN "High" ELSE "Medium"

get_attention_locations ==
    LET locations ==
            [k \in 1 .. Len(problem_locations) |->
                [name            |-> <<"Law Firm - ", problem_locations[k][1]>>,
                 city            |-> problem_locations[k][2],
                 issue           |-> problem_locations[k][5],
                 rating          |-> problem_locations[k][3],
                 reviews_removed |-> problem_locations[k][4],
                 priority        |-> attention_priority(problem_locations[k][3],
                                                        problem_locations[k][4])]]
    IN  /\ response' = jsonify(locations)
        /\ UNCHANGED <<rng, now>>

(***************************************************************************)
(* /api/rating-distribution.                                               *)
(***************************************************************************)
\* round(total * p) in place of int(total * p)
rating_distribution_rounded(total) ==
    [s \in {"5_star", "4_star", "3_star", "2_star", "1_star"} |->
        LET p == CASE s = "5_star" -> 45 [] s = "4_star" -> 30 [] s = "3_star" -> 15
                   [] s = "2_star" -> 7  [] OTHER -> 3
        IN  (total * p + 50) \div 100]

\* the dictionary built from total
rating_distribution(total) ==
    ("5_star" :> int_pct(total, 45)) @@
    ("4_star" :> int_pct(total, 30)) @@
    ("3_star" :> int_pct(total, 15)) @@
    ("2_star" :> int_pct(total, 7))  @@
    ("1_star" :> int_pct(total, 3))

get_rating_distribution ==
    /\ response' = jsonify(rating_distribution(base_reviews))
    /\ UNCHANGED <<rng, now>>

(***************************************************************************)
(* /api/alerts/recent.                                                     *)
(***************************************************************************)
has_alert_inclusive(u) == u >= 700

\* random.random() > 0.7
has_alert(u) == u > 700

get_recent_alerts ==
    /\ IF has_alert(random_at(rng, 0))
          THEN response' = jsonify(<< [date     |-> isoformat(now),
                                       location |-> "Law Firm - Lakeland Branch",
                                       type     |-> "reviews_removed",
                                       message  |-> "8 reviews removed in the last 24 hours"] >>)
          ELSE response' = jsonify(<< >>)
    /\ rng' = advance(rng, 1)
    /\ UNCHANGED now

(***************************************************************************)
(* The application: one request at a time, and the passing of time.        *)
(***************************************************************************)
\* period segments tried on /api/trends/<period>
Periods == {"24h", "7d", "30d", "90d", "1y", "7D", "24H", "week"}

Paths ==
    { <<>>, <<"api", "metrics">>, <<"api", "locations", "top">>,
      <<"api", "locations", "attention">>, <<"api", "rating-distribution">>,
      <<"api", "alerts", "recent">>, <<"api", "export", "excel">>,
      <<"api", "trends">>, <<"api", "reviews">> }
    \cup { <<"api", "trends", p>> : p \in Periods }

Requests ==
    { [method |-> "GET", path |-> p] : p \in Paths }
    \cup { [method |-> "POST", path |-> <<"api", "metrics">>] }

\* the days the server may be started on
StartDays == { datetime(2024, 1, 1), datetime(2024, 3, 2), datetime(2025, 3, 1) }

Init ==
    /\ rng \in 0 .. RngPeriod - 1
    /\ now \in StartDays
    /\ request = NoRequest
    /\ response = NoResponse
    /\ seen = NoExchange

\* no rule matches the path
AnswerNotFound(req) ==
    /\ Endpoint(req.path) = ""
    /\ response' = not_found
    /\ UNCHANGED <<rng, now>>

\* a rule matches, but the routes accept GET only
AnswerMethodNotAllowed(req) ==
    /\ Endpoint(req.path) # ""
    /\ req.method # "GET"
    /\ response' = method_not_allowed
    /\ UNCHANGED <<rng, now>>

\* the request is a GET routed to the view function named
Routed(req, view) == req.method = "GET" /\ Endpoint(req.path) = view

\* the request becomes the last one served; the observer is idle
Served(req) == request' = req /\ UNCHANGED seen

\* the request becomes the last one served; the observer keeps the first
\* exchange (the request, the random position and the day it was served at,
\* the response it got) and, when the same request is served again at the
\* same random position on the same day, the response it got then
Observed(req) ==
    /\ request' = req
    /\ seen' = IF seen = NoExchange
                  THEN [request |-> req, rng |-> rng, now |-> now, response |-> response',
                        again |-> FALSE, repeat |-> NoResponse]
                  ELSE IF req = seen.request /\ rng = seen.rng /\ now = seen.now
                  THEN [seen EXCEPT !.again = TRUE, !.repeat = response']
                  ELSE seen

\* midnight passes
Tick ==
    /\ \E s \in StartDays : s <= now /\ now < s + MaxTicks
    /\ now' = now + 1
    /\ UNCHANGED <<rng, request, response, seen>>

Next ==
    \/ \E req \in Requests :
          \/ AnswerNotFound(req) /\ Served(req)
          \/ AnswerMethodNotAllowed(req) /\ Served(req)
          \/ Routed(req, "home") /\ home /\ Served(req)
          \/ Routed(req, "get_metrics") /\ get_metrics /\ Served(req)
          \/ Routed(req, "get_trends") /\ get_trends(req.path[3]) /\ Served(req)
          \/ Routed(req, "get_top_locations") /\ get_top_locations /\ Served(req)
          \/ Routed(req, "get_attention_locations") /\ get_attention_locations /\ Served(req)
          \/ Routed(req, "get_rating_distribution") /\ get_rating_distribution /\ Served(req)
          \/ Routed(req, "get_recent_alerts") /\ get_recent_alerts /\ Served(req)
          \/ Routed(req, "export_excel") /\ export_excel /\ Served(req)
    \/ Tick

Spec == Init /\ [][Next]_vars

(***************************************************************************)
(* The same application, started on one day with the random source at its  *)
(* first position, with the observer at work.                              *)
(***************************************************************************)
InitObserved == Init /\ rng = 0 /\ now = datetime(2024, 3, 2)

NextObserved ==
    \/ \E req \in Requests :
          \/ AnswerNotFound(req) /\ Observed(req)
          \/ AnswerMethodNotAllowed(req) /\ Observed(req)
          \/ Routed(req, "home") /\ home /\ Observed(req)
          \/ Routed(req, "get_metrics") /\ get_metrics /\ Observed(req)
          \/ Routed(req, "get_trends") /\ get_trends(req.path[3]) /\ Observed(req)
          \/ Routed(req, "get_top_locations") /\ get_top_locations /\ Observed(req)
          \/ Routed(req, "get_attention_locations") /\ get_attention_locations /\ Observed(req)
          \/ Routed(req, "get_rating_distribution") /\ get_rating_distribution /\ Observed(req)
          \/ Routed(req, "get_recent_alerts") /\ get_recent_alerts /\ Observed(req)
          \/ Routed(req, "export_excel") /\ export_excel /\ Observed(req)
    \/ Tick

SpecObserved == InitObserved /\ [][NextObserved]_vars

(***************************************************************************)
(* Properties.                                                             *)
(***************************************************************************)
\* the last request served was a GET routed to the view function named
ServedBy(view) == request.method = "GET" /\ Endpoint(request.path) = view

\* a step that serves a request leaves the day as it is
ServeStep == now' = now

RecognizedPeriods == {"24h", "7d", "30d", "90d"}

RECURSIVE SumOver(_, _)
SumOver(f, S) ==
    IF S = {} THEN 0
    ELSE LET x == CHOOSE y \in S : TRUE IN f[x] + SumOver(f, S \ {x})

\* C1: the rating distribution has exactly the buckets 5_star .. 1_star, each
\* the integer part of 45, 30, 15, 7 and 3 percent of 48532, and the buckets
\* sum to at most 48532.
C1_RatingDistribution ==
    ServedBy("get_rating_distribution") =>
        LET b   == response.body
            pct == ("5_star" :> 45) @@ ("4_star" :> 30) @@ ("3_star" :> 15) @@
                   ("2_star" :> 7) @@ ("1_star" :> 3)
        IN  /\ DOMAIN b = {"5_star", "4_star", "3_star", "2_star", "1_star"}
            /\ \A k \in DOMAIN b :
                  /\ b[k] * 100 <= 48532 * pct[k]
                  /\ 48532 * pct[k] < (b[k] + 1) * 100
            /\ SumOver(b, DOMAIN b) <= 48532

C1_Witness ==
    /\ ServedBy("get_rating_distribution")
    /\ response.body["5_star"] = 21839
    /\ response.body["4_star"] = 14559
    /\ SumOver(response.body, DOMAIN response.body) = 48529

\* the label b is the calendar day after the label a
LabelFollows(a, b) ==
    LET da == a[2] * 10 + a[3]
        db == b[2] * 10 + b[3]
        ma == CHOOSE m \in 1 .. 12 : MonthAbbr[m] = a[1]
        mb == CHOOSE m \in 1 .. 12 : MonthAbbr[m] = b[1]
    IN  \/ ma = mb /\ db = da + 1 /\ db <= (IF ma = 2 THEN 29 ELSE DaysInMonth(2023, ma))
        \/ /\ mb = (ma % 12) + 1
           /\ db = 1
           /\ da \in (IF ma = 2 THEN {28, 29} ELSE {DaysInMonth(2023, ma)})

\* C2: for a recognized period the trends hold 1, 7, 30 and 90 entries; entry
\* i (from 0) is dated today minus (days - i - 1) days, so every entry is dated
\* the day after the one before it and the last entry is dated today.
C2_TrendsWindow ==
    [][ServeStep /\ request'.method = "GET" /\ Endpoint(request'.path) = "get_trends"
        /\ request'.path[3] \in RecognizedPeriods
        => LET p == request'.path[3]
               n == CASE p = "24h" -> 1 [] p = "7d" -> 7 [] p = "30d" -> 30 [] OTHER -> 90
               t == response'.body
           IN  /\ Len(t) = n
               /\ \A i \in 0 .. n - 1 : t[i + 1].date = strftime_bd(now - (n - i - 1))
               /\ \A i \in 1 .. n - 1 : LabelFollows(t[i].date, t[i + 1].date)
               /\ t[n].date = strftime_bd(now)]_vars

\* a 7-day window served on March 2 of a leap year: it starts on February 25
\* and runs over February 29
C2_Witness ==
    /\ ServedBy("get_trends")
    /\ request.path[3] = "7d"
    /\ Len(response.body) = 7
    /\ response.body[1].date = <<"Feb", 2, 5>>
    /\ response.body[5].date = <<"Feb", 2, 9>>
    /\ response.body[7].date = <<"Mar", 0, 2>>

TrendKeys == {"date", "reviews_added", "reviews_removed", "average_rating"}

\* C3: a period that is none of 24h, 7d, 30d, 90d is answered like 7d: status
\* 200 and the seven entries of the 7-day window.
C3_UnknownPeriod ==
    [][ServeStep /\ request'.method = "GET" /\ Endpoint(request'.path) = "get_trends"
        /\ request'.path[3] \notin RecognizedPeriods
        => /\ response'.status = 200
           /\ response'.content_type = "application/json"
           /\ Len(response'.body) = 7
           /\ \A i \in 1 .. 7 : DOMAIN response'.body[i] = TrendKeys
           /\ response'.body = [k \in 1 .. 7 |-> trend_point(now, 7, k - 1, rng)]]_vars

C3_Witness ==
    /\ ServedBy("get_trends")
    /\ request.path[3] = "1y"
    /\ response.status = 200
    /\ Len(response.body) = 7

\* C4: the top locations are at most 10, and each status is Excellent when
\* the rating is at least 4.5, Good when it is at least 4.0 and below 4.5,
\* Monitor when it is below 4.0.
C4_TopLocations ==
    ServedBy("get_top_locations") =>
        /\ Len(response.body) <= 10
        /\ \A i \in 1 .. Len(response.body) :
              LET e == response.body[i]
              IN  /\ e.status \in {"Excellent", "Good", "Monitor"}
                  /\ e.status = "Excellent" <=> e.rating >= 450
                  /\ e.status = "Good" <=> (400 <= e.rating /\ e.rating < 450)
                  /\ e.status = "Monitor" <=> e.rating < 400

C4_Witness ==
    /\ ServedBy("get_top_locations")
    /\ Len(response.body) = 10
    /\ \E i \in 1 .. 10 : response.body[i].rating = 450 /\ response.body[i].status = "Excellent"
    /\ \E i \in 1 .. 10 : response.body[i].rating = 440 /\ response.body[i].status = "Good"

\* C5: the recent alerts are the empty list or one alert; the alert is there
\* exactly when the draw is above 0.7, and it names the Lakeland branch and
\* the type reviews_removed.
C5_Alerts ==
    [][ServeStep /\ request'.method = "GET" /\ Endpoint(request'.path) = "get_recent_alerts"
        => LET a == response'.body
           IN  /\ Len(a) \in {0, 1}
               /\ Len(a) = 1 <=> random_at(rng, 0) > 700
               /\ Len(a) = 1 => /\ a[1].location = "Law Firm - Lakeland Branch"
                                /\ a[1].type = "reviews_removed"]_vars

C5_Witness ==
    /\ ServedBy("get_recent_alerts")
    /\ Len(response.body) = 1
    /\ response.body[1].type = "reviews_removed"

ExposedViews == {r.endpoint : r \in url_map}

\* C6 as stated: every exposed route answers a GET with status 200 and a
\* JSON body.
C6_AllJson ==
    (request.method = "GET" /\ Endpoint(request.path) \in ExposedViews) =>
        response.status = 200 /\ response.content_type = "application/json"

\* C6 as amended: every exposed route answers a GET with status 200; the body
\* is JSON on every route but /, whose body is HTML.
C6_Status200 ==
    (request.method = "GET" /\ Endpoint(request.path) \in ExposedViews) =>
        /\ response.status = 200
        /\ response.content_type =
              (IF Endpoint(request.path) = "home" THEN "text/html" ELSE "application/json")

C6_Witness ==
    /\ ServedBy("home")
    /\ response.status = 200
    /\ response.content_type = "text/html"

C8_Attention ==
    ServedBy("get_attention_locations") =>
        /\ Len(response.body) = 5
        /\ \A i \in 1 .. 5 :
              LET e == response.body[i]
              IN  /\ e.name = <<"Law Firm - ", problem_locations[i][1]>>
                  /\ e.rating = problem_locations[i][3]
                  /\ e.reviews_removed = problem_locations[i][4]
                  /\ e.priority = "Urgent" <=> (e.reviews_removed > 5 \/ e.rating < 330)
                  /\ e.priority = "High" <=>
                        (~(e.reviews_removed > 5 \/ e.rating < 330) /\ e.rating < 350)
                  /\ e.priority = "Medium" <=>
                        (~(e.reviews_removed > 5 \/ e.rating < 330) /\ e.rating >= 350)

C8_Witness ==
    /\ ServedBy("get_attention_locations")
    /\ \E i \in 1 .. 5 : /\ response.body[i].rating = 330
                         /\ response.body[i].reviews_removed <= 5
                         /\ response.body[i].priority = "High"
    /\ \E i \in 1 .. 5 : response.body[i].rating = 350 /\ response.body[i].priority = "Medium"
    /\ response.body[1].priority = "Urgent"

\* C9: the metrics snapshot has 120 locations, total_reviews in 48482..48782,
\* average_rating in 4.10..4.40, reviews_removed_today in 0..30,
\* reviews_added_24h in 100..300, change_7d_reviews in 800..1500 and
\* change_7d_rating in -0.30..0.20, so removed < added < change_7d < total.
C9_Metrics ==
    ServedBy("get_metrics") =>
        LET m == response.body
        IN  /\ m.total_locations = 120
            /\ m.total_reviews \in 48482 .. 48782
            /\ m.average_rating \in 410 .. 440
            /\ m.reviews_removed_today \in 0 .. 30
            /\ m.reviews_added_24h \in 100 .. 300
            /\ m.change_7d_reviews \in 800 .. 1500
            /\ m.change_7d_rating \in -30 .. 20
            /\ m.reviews_removed_today < m.reviews_added_24h
            /\ m.reviews_added_24h < m.change_7d_reviews
            /\ m.change_7d_reviews < m.total_reviews

\* the most removed with the fewest added
C9_Witness ==
    /\ ServedBy("get_metrics")
    /\ response.body.reviews_removed_today = 30
    /\ response.body.reviews_added_24h = 100

\* C10: every trend point has reviews_added in 30..80, reviews_removed in
\* 0..10 and average_rating in 4.10..4.50, so it removes fewer than it adds.
C10_TrendPoints ==
    ServedBy("get_trends") =>
        \A i \in 1 .. Len(response.body) :
            LET e == response.body[i]
            IN  /\ e.reviews_added \in 30 .. 80
                /\ e.reviews_removed \in 0 .. 10
                /\ e.average_rating \in 410 .. 450
                /\ e.reviews_removed < e.reviews_added

\* a window that holds the most removed, the fewest added and both ends of
\* the rating
C10_Witness ==
    /\ ServedBy("get_trends")
    /\ \E i \in 1 .. Len(response.body) : response.body[i].reviews_removed = 10
    /\ \E i \in 1 .. Len(response.body) : response.body[i].reviews_added = 30
    /\ \E i \in 1 .. Len(response.body) : response.body[i].average_rating = 450
    /\ \E i \in 1 .. Len(response.body) : response.body[i].average_rating = 410

====
